---- MODULE Spec2Model ----
(***************************************************************************)
(* Invisible LSB watermark codec: applyInvisibleWatermark and              *)
(* extractWatermark over an RGBA pixel buffer, with the bit codec          *)
(* (stringToBinary / binaryToString) and the seeded generator              *)
(* (createSeededRandom) they are built on.                                 *)
(*                                                                         *)
(* A text is a sequence of UTF-16 code units (numbers), a binary string a  *)
(* sequence of the digits 0 and 1, an ImageData a record holding the       *)
(* reference of its data array in the heap together with width and height. *)
(***************************************************************************)
EXTENDS Integers, Sequences, FiniteSets

VARIABLES
    pc,              \* position: "start", "embed", "embedded", "extract", "done"
    heap,            \* reference -> Uint8ClampedArray contents (offset -> byte)
    imageData,       \* applyInvisibleWatermark: the input image
    options,         \* applyInvisibleWatermark: config (message, randomSeed)
    watermarkedData, \* applyInvisibleWatermark: the copy that is returned
    binaryMessage,   \* applyInvisibleWatermark: stringToBinary(config.message)
    seed,            \* applyInvisibleWatermark: counter captured by random()
    modifiedPixels,  \* applyInvisibleWatermark: Set of consumed pixel indices
    slots,           \* applyInvisibleWatermark: accepted pixelIndex values, in order
    i,               \* applyInvisibleWatermark: index of the message loop
    byteIndexes,     \* every byteIndex value computed by a signature loop
    target,          \* extractWatermark: the image being read
    exOptions,       \* extractWatermark: config (message, randomSeed)
    exSeed,          \* extractWatermark: counter captured by random()
    exModified,      \* extractWatermark: Set of consumed pixel indices
    exSlots,         \* extractWatermark: accepted pixelIndex values, in order
    exI,             \* extractWatermark: index of the read loop
    extractedBinary, \* extractWatermark: bits read so far
    ret,             \* extractWatermark: "pending", "null" or "text"
    result           \* extractWatermark: the returned text when ret = "text"

vars == <<pc, heap, imageData, options, watermarkedData, binaryMessage,
          seed, modifiedPixels, slots, i, byteIndexes, target, exOptions,
          exSeed, exModified, exSlots, exI, extractedBinary, ret, result>>

applyVars == <<imageData, options, watermarkedData, binaryMessage, seed,
               modifiedPixels, slots, i>>

extractVars == <<target, exOptions, exSeed, exModified, exSlots, exI,
                 extractedBinary, ret, result>>

----------------------------------------------------------------------------
(* Bounds of the checked instances *)

MaxLen == 1      \* longest of the messages enumerated over Chars
MaxSeed == 1     \* seeds 1..MaxSeed
MaxSide == 9     \* side of the largest (square) image

Chars == {65, 66}                                  \* "A", "B"

\* every text over Chars up to MaxLen, and three particular ones: "AB", a
\* character above the single-byte range, the two ends of the single-byte range
Messages ==
    UNION {[1..n -> Chars] : n \in 0..MaxLen}
        \cup {<<65, 66>>, <<300>>, <<0, 255>>}

\* the seeds 1..MaxSeed and 42
Seeds == (1..MaxSeed) \cup {42}

Sizes == {<<3, 3>>, <<8, 8>>, <<MaxSide, MaxSide>>}

Patterns == {"plain", "opaque", "signed"}

Configs == [message : Messages, randomSeed : Seeds]

----------------------------------------------------------------------------
(* utils: createSeededRandom *)

\* random() returns x - floor(x) for x = sin(seed) * 10000; the value is kept
\* as the integer floor((x - floor(x)) * SCALE).
SCALE == 10000000

\* SinFrac[c] = floor(frac(sin(c) * 10000) * SCALE) for c = 1, 2, ...
SinFrac == <<
    7098480, 9742682, 2000805, 9750469, 7572533, 8450180, 8659871, 5824662,
    1848524, 7888911, 979344, 2708199, 6703682, 735569, 8784015, 9668333,
    250812, 1275322, 7720966, 4525072, 5563853, 4869070, 7959582, 2163799,
    4824990, 5845047, 7592840, 578830, 6611578, 6837590, 6235467, 2668124,
    1186010, 8268612, 1733050, 2114655, 6186664, 6857870, 9538628, 1316047,
    7733119, 7845208, 2525737, 192510, 352453, 8834764, 7312274, 4533867,
    4734724, 2514629, 2917584, 2759204, 2515018, 1095114, 4482664, 4899791,
    6475524, 7264808, 3800713, 8937889, 8222999, 1930335, 5570030, 2603819,
    2867949, 4884597, 8002102, 7231931, 1518621, 9068155, 5465325, 2336276 >>

\* The generator is followed up to this value of its counter.
MaxCounter == Len(SinFrac)

\* The value random() returns when its captured counter is c (it then does seed++).
createSeededRandom(c) == SinFrac[c]

\* Math.floor(random() * totalPixels)
FloorScaled(r, totalPixels) == (r * totalPixels) \div SCALE

----------------------------------------------------------------------------
(* utils: stringToBinary, binaryToString *)

Min(a, b) == IF a < b THEN a ELSE b

\* Number.prototype.toString(2)
RECURSIVE ToString2(_)
ToString2(n) == IF n < 2 THEN <<n>> ELSE ToString2(n \div 2) \o <<n % 2>>

\* padStart left out: toString(2) alone, without its leading zeros
padStartNone(s, len) == s

\* String.prototype.padStart(len, '0')
RECURSIVE padStart(_, _)
padStart(s, len) == IF Len(s) >= len THEN s ELSE padStart(<<0>> \o s, len)

\* str.charCodeAt(i).toString(2).padStart(8, '0')
CharToBinary(code) == padStart(ToString2(code), 8)

RECURSIVE stringToBinary(_)
stringToBinary(str) ==
    IF str = <<>> THEN <<>>
    ELSE CharToBinary(Head(str)) \o stringToBinary(Tail(str))

\* parseInt(byte, 2) of a non-empty string of binary digits
RECURSIVE parseInt2(_)
parseInt2(byte) ==
    IF byte = <<>> THEN 0
    ELSE 2 * parseInt2(SubSeq(byte, 1, Len(byte) - 1)) + byte[Len(byte)]

\* binary.substring(from, from + 8), offsets counted from 0
substring8(binary, from) == SubSeq(binary, from + 1, Min(from + 8, Len(binary)))

RECURSIVE binaryToStringFrom(_, _)
binaryToStringFrom(binary, from) ==
    IF from >= Len(binary) THEN <<>>
    ELSE <<parseInt2(substring8(binary, from)) % 65536>>
         \o binaryToStringFrom(binary, from + 8)

binaryToString(binary) == binaryToStringFrom(binary, 0)

----------------------------------------------------------------------------
(* watermark: typed-array accesses *)

\* the bit is never set: data[offset] left as it was
SetLSBKeep(v) == v

\* v | 1 and v & ~1 on a byte
SetLSB(v) == IF v % 2 = 0 THEN v + 1 ELSE v
ClearLSB(v) == v - (v % 2)

\* plain assignment in place of |= and &=: the byte becomes the bit
WithLSBAssigned(v, bit) == bit

\* the byte after v |= 1 (bit = 1) or v &= ~1 (bit = 0)
WithLSB(v, bit) == IF bit = 1 THEN SetLSB(v) ELSE ClearLSB(v)

\* data[offset] |= 1 when bit = 1, data[offset] &= ~1 otherwise; an offset
\* outside the array is ignored by the typed array.
WriteLSB(data, offset, bit) ==
    IF offset \in DOMAIN data
    THEN [data EXCEPT ![offset] = WithLSB(@, bit)]
    ELSE data

\* (data[offset] & 1) === 1 ? '1' : '0'; outside the array the read is
\* undefined and undefined & 1 is 0.
ReadLSB(data, offset) ==
    IF offset \in DOMAIN data THEN data[offset] % 2 ELSE 0

\* dataIndex + 2 and dataIndex + 3 for dataIndex = pixel * 4
BlueOffset(pixel) == pixel * 4 + 2
AlphaOffset(pixel) == pixel * 4 + 3

\* the consumed set is never consulted
hasNever(set, x) == FALSE

\* Set.prototype.has
has(set, x) == x \in set

----------------------------------------------------------------------------
(* watermark: the signature *)

WATERMARK == <<87, 65, 84, 69, 82, 77, 65, 82, 75>>

signature == stringToBinary(WATERMARK)

\* Math.min(signature.length, 64)
SigBits == Min(Len(signature), 64)

\* the signature put in the first pixels: byteIndex = i
SigByteIndexFront(k, totalPixels) == k

\* byteIndex = i + totalPixels - 64
SigByteIndex(k, totalPixels) == k + totalPixels - 64

\* the signature loop of applyInvisibleWatermark: iteration k writes
\* signature[k] at offset AlphaOffset(byteIndex); the offsets of different
\* iterations differ, so each byte is written by at most one iteration
WriteSignature(data, totalPixels) ==
    [j \in DOMAIN data |->
        LET ks == {k \in 0..(SigBits - 1) :
                      AlphaOffset(SigByteIndex(k, totalPixels)) = j}
        IN  IF ks = {} THEN data[j]
            ELSE WithLSB(data[j], signature[(CHOOSE k \in ks : TRUE) + 1])]

\* a signature loop that never sets signatureMatch to false
CheckSignatureAlways(data, totalPixels, k) == SigBits


\* the signature loop of extractWatermark, from iteration k on: the iteration
\* that found a mismatch (and broke out), or SigBits when all bits matched
RECURSIVE CheckSignature(_, _, _)
CheckSignature(data, totalPixels, k) ==
    IF k >= SigBits THEN SigBits
    ELSE IF ReadLSB(data, AlphaOffset(SigByteIndex(k, totalPixels))) # signature[k + 1]
         THEN k
         ELSE CheckSignature(data, totalPixels, k + 1)

----------------------------------------------------------------------------
(* the images handed to the codec *)

TotalPixels(img) == img.width * img.height

NoImage == [data |-> 0, width |-> 0, height |-> 0]

\* Contents of the decoded input image: "plain" is an arbitrary picture
\* (the low bit of every channel varies from pixel to pixel), "opaque" is
\* all white with full alpha, "signed" is the plain picture already
\* carrying the signature.
PlainData(n) == [j \in 0..(4 * n - 1) |-> (j * 37 + (j \div 4) * 3 + 11) % 256]

OpaqueData(n) == [j \in 0..(4 * n - 1) |-> 255]

InitialData(p, n) ==
    CASE p = "plain"  -> PlainData(n)
      [] p = "opaque" -> OpaqueData(n)
      [] p = "signed" -> WriteSignature(PlainData(n), n)

\* the data array shared with the input: new ImageData(imageData.data, ...)
CloneRefShared(ref) == ref

\* new Uint8ClampedArray(imageData.data): a fresh array
CloneRef(ref) == ref + 1

----------------------------------------------------------------------------

Init ==
    /\ pc = "start"
    /\ \E sz \in Sizes, p \in Patterns :
          /\ imageData = [data |-> 1, width |-> sz[1], height |-> sz[2]]
          /\ heap = [r \in 1..2 |->
                        IF r = 1 THEN InitialData(p, sz[1] * sz[2]) ELSE <<>>]
    /\ options \in Configs
    /\ watermarkedData = NoImage
    /\ binaryMessage = <<>>
    /\ seed = 0
    /\ modifiedPixels = {}
    /\ slots = <<>>
    /\ i = 0
    /\ byteIndexes = {}
    /\ target = NoImage
    /\ exOptions = [message |-> <<>>, randomSeed |-> 0]
    /\ exSeed = 0
    /\ exModified = {}
    /\ exSlots = <<>>
    /\ exI = 0
    /\ extractedBinary = <<>>
    /\ ret = "pending"
    /\ result = <<>>

\* applyInvisibleWatermark up to the message loop: copy, message bits, generator
ApplyBegin ==
    /\ pc = "start"
    /\ LET ref == CloneRef(imageData.data) IN
          /\ watermarkedData' = [data |-> ref, width |-> imageData.width,
                                 height |-> imageData.height]
          /\ heap' = [heap EXCEPT ![ref] = heap[imageData.data]]
    /\ binaryMessage' = stringToBinary(options.message)
    /\ seed' = options.randomSeed
    /\ modifiedPixels' = {}
    /\ slots' = <<>>
    /\ i' = 0
    /\ pc' = "embed"
    /\ UNCHANGED <<imageData, options, byteIndexes, extractVars>>

\* one pass of the do-while that found a consumed pixel: draw again
ApplyRedraw ==
    /\ pc = "embed"
    /\ i < Len(binaryMessage)
    /\ seed <= MaxCounter
    /\ has(modifiedPixels, FloorScaled(createSeededRandom(seed), TotalPixels(imageData)))
    /\ seed' = seed + 1
    /\ UNCHANGED <<pc, heap, imageData, options, watermarkedData,
                   binaryMessage, modifiedPixels, slots, i, byteIndexes, extractVars>>

\* the pass of the do-while that found a free pixel, and the rest of the
\* iteration: record the pixel, write bit i into its blue channel
ApplyBit ==
    /\ pc = "embed"
    /\ i < Len(binaryMessage)
    /\ seed <= MaxCounter
    /\ LET pixelIndex == FloorScaled(createSeededRandom(seed), TotalPixels(imageData)) IN
          /\ ~has(modifiedPixels, pixelIndex)
          /\ modifiedPixels' = modifiedPixels \cup {pixelIndex}
          /\ slots' = Append(slots, pixelIndex)
          /\ heap' = [heap EXCEPT ![watermarkedData.data] =
                         WriteLSB(@, BlueOffset(pixelIndex), binaryMessage[i + 1])]
    /\ seed' = seed + 1
    /\ i' = i + 1
    /\ UNCHANGED <<pc, imageData, options, watermarkedData,
                   binaryMessage, byteIndexes, extractVars>>

\* the signature loop and the return of applyInvisibleWatermark
ApplySignature ==
    /\ pc = "embed"
    /\ i >= Len(binaryMessage)
    /\ heap' = [heap EXCEPT ![watermarkedData.data] =
                   WriteSignature(@, TotalPixels(imageData))]
    /\ byteIndexes' = byteIndexes \cup
           {SigByteIndex(k, TotalPixels(imageData)) : k \in 0..(SigBits - 1)}
    /\ pc' = "embedded"
    /\ UNCHANGED <<applyVars, extractVars>>

\* extractWatermark up to the read loop: the signature check, then either
\* return null or set up the generator.  It is called on the watermarked
\* data with any config, or with the embedding's config on the image that
\* was never watermarked.
ExtractBegin ==
    /\ pc = "embedded"
    /\ \E img \in {imageData, watermarkedData}, cfg \in Configs :
          /\ img = imageData => cfg = options
          /\ LET data  == heap[img.data]
                 stop  == CheckSignature(data, TotalPixels(img), 0)
                 signatureMatch == stop = SigBits
             IN  /\ target' = img
                 /\ exOptions' = cfg
                 /\ byteIndexes' = byteIndexes \cup
                        {SigByteIndex(k, TotalPixels(img)) : k \in 0..Min(stop, SigBits - 1)}
                 /\ exSeed' = IF signatureMatch THEN cfg.randomSeed ELSE exSeed
                 /\ ret' = IF signatureMatch THEN "pending" ELSE "null"
                 /\ pc' = IF signatureMatch THEN "extract" ELSE "done"
    /\ exModified' = {}
    /\ exSlots' = <<>>
    /\ exI' = 0
    /\ extractedBinary' = <<>>
    /\ result' = <<>>
    /\ UNCHANGED <<heap, applyVars>>

\* stringToBinary(config.message).length
expectedMessageLength == Len(stringToBinary(exOptions.message))

ExtractRedraw ==
    /\ pc = "extract"
    /\ exI < expectedMessageLength
    /\ exSeed <= MaxCounter
    /\ has(exModified, FloorScaled(createSeededRandom(exSeed), TotalPixels(target)))
    /\ exSeed' = exSeed + 1
    /\ UNCHANGED <<pc, heap, applyVars, byteIndexes, target, exOptions,
                   exModified, exSlots, exI, extractedBinary, ret, result>>

ExtractBit ==
    /\ pc = "extract"
    /\ exI < expectedMessageLength
    /\ exSeed <= MaxCounter
    /\ LET pixelIndex == FloorScaled(createSeededRandom(exSeed), TotalPixels(target)) IN
          /\ ~has(exModified, pixelIndex)
          /\ exModified' = exModified \cup {pixelIndex}
          /\ exSlots' = Append(exSlots, pixelIndex)
          /\ extractedBinary' =
                 Append(extractedBinary, ReadLSB(heap[target.data], BlueOffset(pixelIndex)))
    /\ exSeed' = exSeed + 1
    /\ exI' = exI + 1
    /\ UNCHANGED <<pc, heap, applyVars, byteIndexes, target, exOptions,
                   ret, result>>

ExtractReturn ==
    /\ pc = "extract"
    /\ exI >= expectedMessageLength
    /\ result' = binaryToString(extractedBinary)
    /\ ret' = "text"
    /\ pc' = "done"
    /\ UNCHANGED <<heap, applyVars, byteIndexes, target, exOptions,
                   exSeed, exModified, exSlots, exI, extractedBinary>>

Next ==
    \/ ApplyBegin
    \/ ApplyRedraw
    \/ ApplyBit
    \/ ApplySignature
    \/ ExtractBegin
    \/ ExtractRedraw
    \/ ExtractBit
    \/ ExtractReturn

Spec == Init /\ [][Next]_vars

----------------------------------------------------------------------------
(* Properties *)

Range(s) == {s[k] : k \in 1..Len(s)}

Distinct(s) == \A a, b \in 1..Len(s) : a # b => s[a] # s[b]

IsPrefix(s, t) == Len(s) <= Len(t) /\ SubSeq(t, 1, Len(s)) = s

\* bit b (0 = most significant) of the 8-bit representation of code
BitOf(code, b) == (code \div (2 ^ (7 - b))) % 2

Applied == pc \in {"embedded", "extract", "done"}

\* the array of the input image and the array of the returned image
InputData == heap[imageData.data]
OutputData == heap[watermarkedData.data]

\* C8: for a text whose character codes are all in 0..255, stringToBinary
\* gives exactly 8 bits per character, most significant bit first, in
\* character order, and binaryToString gives the text back.
C8_CodecRoundTrip ==
    (pc # "start" /\ \A k \in 1..Len(options.message) : options.message[k] \in 0..255)
    => /\ Len(binaryMessage) = 8 * Len(options.message)
       /\ \A k \in 1..Len(options.message) : \A b \in 0..7 :
              binaryMessage[8 * (k - 1) + b + 1] = BitOf(options.message[k], b)
       /\ binaryToString(binaryMessage) = options.message

\* "AB" has been encoded to 0100000101000010
C8_Witness ==
    /\ pc # "start"
    /\ options.message = <<65, 66>>
    /\ binaryMessage = <<0,1,0,0,0,0,0,1, 0,1,0,0,0,0,1,0>>

\* C5: in the embedding pass and in the extraction pass the accepted pixel
\* indices are pairwise distinct and lie in [0, N), and at every step the
\* consumed set holds exactly the indices accepted so far, one per bit
\* already processed.
C5_SlotDistinct ==
    /\ Distinct(slots)
    /\ Range(slots) \subseteq 0..(TotalPixels(imageData) - 1)
    /\ modifiedPixels = Range(slots)
    /\ Cardinality(modifiedPixels) = i
    /\ Len(slots) = i
    /\ Distinct(exSlots)
    /\ Range(exSlots) \subseteq 0..(TotalPixels(target) - 1)
    /\ exModified = Range(exSlots)
    /\ Cardinality(exModified) = exI
    /\ Len(exSlots) = exI

\* both passes drew 16 slots and both had to draw again after a collision
C5_Witness ==
    /\ pc = "done"
    /\ ret = "text"
    /\ Len(slots) = 16
    /\ seed - options.randomSeed > 16
    /\ Len(exSlots) = 16
    /\ exSeed - exOptions.randomSeed > 16

\* C2: applyInvisibleWatermark never changes the input image (its bytes,
\* width, height), and what it returns is another array with the same width
\* and height.
C2_InputUntouched ==
    /\ [][ /\ imageData' = imageData
           /\ heap'[imageData.data] = heap[imageData.data] ]_vars
    /\ []((pc # "start") =>
              /\ watermarkedData.data # imageData.data
              /\ watermarkedData.width = imageData.width
              /\ watermarkedData.height = imageData.height)

\* the embedding has returned and its copy differs from the input
C2_Witness ==
    /\ pc = "embedded"
    /\ Len(slots) = 16
    /\ OutputData # InputData

AlphaBit(img, p) == ReadLSB(heap[img.data], 4 * p + 3)

SignatureMismatch(img) ==
    \E k \in 0..63 :
        AlphaBit(img, TotalPixels(img) - 64 + k) # signature[k + 1]

\* C4: extractWatermark returns null exactly when some alpha LSB of the
\* pixels N - 64 + k, k in 0..63, differs from bit k of the signature; it
\* then has drawn no pixel index and read no blue value; when all 64 bits
\* match, what it returns is a text.
C4_SignatureGate ==
    (pc \in {"extract", "done"})
    => /\ (ret = "null") <=> SignatureMismatch(target)
       /\ SignatureMismatch(target)
              => /\ pc = "done"
                 /\ exSeed = 0
                 /\ exSlots = <<>>
                 /\ exModified = {}
                 /\ extractedBinary = <<>>
       /\ (pc = "done" /\ ~SignatureMismatch(target)) => ret = "text"

\* null was returned for an image whose first signature bits matched
C4_Witness ==
    /\ pc = "done"
    /\ ret = "null"
    /\ TotalPixels(target) >= 64
    /\ AlphaBit(target, TotalPixels(target) - 64) = signature[1]
    /\ AlphaBit(target, TotalPixels(target) - 63) = signature[2]

\* the text is ASCII
IsAscii(text) == \A k \in 1..Len(text) : text[k] \in 0..127

\* the message loop of a call has drawn every value the generator is
\* followed for, and a bit is still to be placed
ApplyCut == pc = "embed" /\ i < Len(binaryMessage) /\ seed > MaxCounter
ExtractCut == pc = "extract" /\ exI < expectedMessageLength /\ exSeed > MaxCounter

\* C1: for an ASCII message T with 8 * len(T) < N - 64 and any seed,
\* extracting from the embedded image with the same message and seed draws
\* the same pixel indices in the same order and returns exactly T (and
\* neither call is still drawing when the generator's values run out).
C1_RoundTrip ==
    (IsAscii(options.message)
        /\ 8 * Len(options.message) < TotalPixels(imageData) - 64)
    => /\ ~ApplyCut
       /\ (pc \in {"extract", "done"} /\ target = watermarkedData /\ exOptions = options)
              => /\ ~ExtractCut
                 /\ IsPrefix(exSlots, slots)
                 /\ pc = "done" =>
                        /\ ret = "text"
                        /\ result = options.message
                        /\ exSlots = slots

\* "AB" was embedded in the 81-pixel plain picture and read back
C1_Witness ==
    /\ pc = "done"
    /\ target = watermarkedData
    /\ exOptions = options
    /\ options.message = <<65, 66>>
    /\ 16 < TotalPixels(imageData) - 64
    /\ result = <<65, 66>>
    /\ OutputData # InputData

\* C9: with N >= 64 the image being built and then returned differs from the input at most in
\* the blue LSB of the drawn pixels and the alpha LSB of the last 64 pixels;
\* and once the signature is written, the blue LSB of the k-th drawn pixel
\* is still bit k of the message.
C9_Footprint ==
    (pc \in {"embed", "embedded"} /\ TotalPixels(imageData) >= 64)
    => /\ DOMAIN OutputData = DOMAIN InputData
       /\ \A p \in 0..(TotalPixels(imageData) - 1) :
             /\ OutputData[4 * p] = InputData[4 * p]
             /\ OutputData[4 * p + 1] = InputData[4 * p + 1]
             /\ OutputData[4 * p + 2] \div 2 = InputData[4 * p + 2] \div 2
             /\ p \notin modifiedPixels => OutputData[4 * p + 2] = InputData[4 * p + 2]
             /\ OutputData[4 * p + 3] \div 2 = InputData[4 * p + 3] \div 2
             /\ p < TotalPixels(imageData) - 64
                    => OutputData[4 * p + 3] = InputData[4 * p + 3]
       /\ pc = "embedded" => \A k \in 1..Len(slots) :
                         OutputData[4 * slots[k] + 2] % 2 = binaryMessage[k]

\* 16 bits were embedded, one of them in a pixel of the signature range,
\* and both a blue and an alpha byte were changed
C9_Witness ==
    /\ pc = "embedded"
    /\ TotalPixels(imageData) > 64
    /\ Len(slots) = 16
    /\ \E k \in 1..16 : slots[k] >= TotalPixels(imageData) - 64
    /\ \E p \in 0..(TotalPixels(imageData) - 1) :
           OutputData[4 * p + 2] # InputData[4 * p + 2]
    /\ \E p \in 0..(TotalPixels(imageData) - 1) :
           OutputData[4 * p + 3] # InputData[4 * p + 3]

\* C10: the text extractWatermark returns has exactly len(config.message)
\* characters; and when the image (N >= 64) was embedded with an ASCII
\* message T (8 * len(T) < N) and seed S, extracting with seed S and an
\* expected message E, len(E) <= len(T), returns the first len(E) characters
\* of T whatever the characters of E are.
C10_PrefixOfEmbedded ==
    /\ (pc = "done" /\ ret = "text") => Len(result) = Len(exOptions.message)
    /\ (/\ pc = "done"
        /\ target = watermarkedData
        /\ TotalPixels(imageData) >= 64
        /\ IsAscii(options.message)
        /\ 8 * Len(options.message) < TotalPixels(imageData)
        /\ exOptions.randomSeed = options.randomSeed
        /\ Len(exOptions.message) <= Len(options.message))
       => /\ ret = "text"
          /\ result = SubSeq(options.message, 1, Len(exOptions.message))

\* C6: both calls run to completion: whenever the message loop still has a
\* bit to place or to read, its do-while can exit, that is, some pixel
\* index in [0, N) is not yet in the consumed set.
C6_RedrawLoopExits ==
    /\ (pc = "embed" /\ i < Len(binaryMessage))
           => \E p \in 0..(TotalPixels(imageData) - 1) : p \notin modifiedPixels
    /\ (pc = "extract" /\ exI < expectedMessageLength)
           => \E p \in 0..(TotalPixels(target) - 1) : p \notin exModified

\* C7: no signature loop computes a negative pixel index or a negative
\* offset into the data array.
C7_NoNegativeIndex ==
    \A b \in byteIndexes : b >= 0 /\ AlphaOffset(b) >= 0

====
